---- MODULE Spec2Model ----
(***************************************************************************)
(* A model of task_tracker.py: the tasks table of tasks.db (schema, rows   *)
(* and the AUTOINCREMENT sequence), the store operations over it, the      *)
(* due-soon evaluation, one reminder cycle, and the per-session scheduler  *)
(* guard.                                                                  *)
(*                                                                         *)
(* TEXT values that the program formats or parses (deadline, created_at)   *)
(* are sequences of code points; TEXT values it only stores and           *)
(* compares (title, problems, requirements, priority, status) are strings. *)
(* Time is counted in ticks; tick 0 of a day is the instant 00:00:00.000000 *)
(* and the process runs in UTC, so datetime.now() and SQLite's             *)
(* datetime("now") read the same clock.                                    *)
(***************************************************************************)
EXTENDS Integers, Sequences, FiniteSets, TLC

VARIABLES
    db,                 \* tasks.db: the tasks table and its sqlite_sequence row
    now,                \* the clock, in ticks
    scheduler_started,  \* 'scheduler_started' in st.session_state
    threads,            \* threads this session has started
    pending,            \* started threads that have not run start_scheduler yet
    jobs,               \* send_reminders jobs registered with a running scheduler
    assigned,           \* history: the ids the table has handed out, in order
    out                 \* what the most recent step returned, printed or raised

vars == <<db, now, scheduler_started, threads, pending, jobs, assigned, out>>

----------------------------------------------------------------------------
(* Bounds of the model *)

\* Largest id the AUTOINCREMENT sequence may hand out: add_task is not taken beyond it.
MaxId == 2

\* The clock runs over the ticks 0..MaxNow.
MaxNow == 1

\* Instants told apart within one day; tick 0 is midnight exactly.
TicksPerDay == 2

\* Threads one session may be seen to start before the model stops counting.
MaxThreads == 2

----------------------------------------------------------------------------
(* Text *)

\* A text that is formatted or parsed is the sequence of its characters'
\* code points: "0".."9" are 48..57, " " is 32, "-" is 45, ":" is 58.
IsDigit(c) == c \in 48..57

DigitVal(c) == c - 48

\* n written with w digits, zero-padded (n < 10^w).
RECURSIVE Pad(_, _)
Pad(n, w) ==
    IF w = 0 THEN <<>> ELSE Pad(n \div 10, w - 1) \o <<48 + (n % 10)>>

\* The number a sequence of digits denotes.
RECURSIVE NumVal(_)
NumVal(s) ==
    IF Len(s) = 0 THEN 0
    ELSE 10 * NumVal(SubSeq(s, 1, Len(s) - 1)) + DigitVal(s[Len(s)])

AllDigits(s) == \A i \in 1..Len(s) : IsDigit(s[i])

\* Byte-wise comparison of two texts (SQLite's BINARY collation): a < b.
RECURSIVE TextLess(_, _)
TextLess(a, b) ==
    IF Len(b) = 0 THEN FALSE
    ELSE IF Len(a) = 0 THEN TRUE
    ELSE IF Head(a) # Head(b) THEN Head(a) < Head(b)
    ELSE TextLess(Tail(a), Tail(b))

----------------------------------------------------------------------------
(* Calendar *)

IsLeap(y) == (y % 4 = 0) /\ ((y % 100 # 0) \/ (y % 400 = 0))

DaysInMonth(y, m) ==
    IF m = 2 THEN (IF IsLeap(y) THEN 29 ELSE 28)
    ELSE IF m \in {4, 6, 9, 11} THEN 30
    ELSE 31

RECURSIVE DaysBeforeMonth(_, _)
DaysBeforeMonth(y, m) ==
    IF m = 1 THEN 0 ELSE DaysBeforeMonth(y, m - 1) + DaysInMonth(y, m - 1)

\* date.toordinal(): the days from 0001-01-01, that day being 1.
Ordinal(d) ==
    LET y1 == d.year - 1
    IN  y1 * 365 + (y1 \div 4) - (y1 \div 100) + (y1 \div 400)
          + DaysBeforeMonth(d.year, d.month) + d.day

NextDate(d) ==
    IF d.day < DaysInMonth(d.year, d.month) THEN [d EXCEPT !.day = d.day + 1]
    ELSE IF d.month < 12 THEN [year |-> d.year, month |-> d.month + 1, day |-> 1]
    ELSE [year |-> d.year + 1, month |-> 1, day |-> 1]

RECURSIVE AddDays(_, _)
AddDays(d, n) == IF n = 0 THEN d ELSE AddDays(NextDate(d), n - 1)

\* The calendar day on which tick 0 falls: the last days of a leap February.
BaseDate == [year |-> 2024, month |-> 2, day |-> 28]

\* datetime.now() at tick t: the calendar date and the tick within the day.
DatetimeNow(t) == [date |-> AddDays(BaseDate, t \div TicksPerDay), tick |-> t % TicksPerDay]

\* strftime('%Y-%m-%d')
FormatDate(d) == Pad(d.year, 4) \o <<45>> \o Pad(d.month, 2) \o <<45>> \o Pad(d.day, 2)

\* strftime('%Y-%m-%d %H:%M:%S'), also the text SQLite's datetime("now") gives.
FormatDateTime(dt) ==
    LET secs == dt.tick * (86400 \div TicksPerDay)
    IN  FormatDate(dt.date) \o <<32>> \o Pad(secs \div 3600, 2) \o <<58>>
          \o Pad((secs % 3600) \div 60, 2) \o <<58>> \o Pad(secs % 60, 2)

\* The positions of the "-" characters of a text.
Dashes(s) == {i \in 1..Len(s) : s[i] = 45}

\* datetime.strptime(s, '%Y-%m-%d'): %Y is four digits, %m one or two digits
\* in 1..12, %d one or two digits in 1..31, and the date must exist; anything
\* else raises ValueError.
StrptimeOk(s) ==
    /\ Cardinality(Dashes(s)) = 2
    /\ LET i == CHOOSE k \in Dashes(s) : \A l \in Dashes(s) : k <= l
           j == CHOOSE k \in Dashes(s) : \A l \in Dashes(s) : k >= l
           ys == SubSeq(s, 1, i - 1)
           ms == SubSeq(s, i + 1, j - 1)
           ds == SubSeq(s, j + 1, Len(s))
       IN  /\ Len(ys) = 4 /\ AllDigits(ys)
           /\ Len(ms) \in {1, 2} /\ AllDigits(ms) /\ NumVal(ms) \in 1..12
           /\ Len(ds) \in {1, 2} /\ AllDigits(ds) /\ NumVal(ds) \in 1..31
           /\ NumVal(ys) >= 1
           /\ NumVal(ds) <= DaysInMonth(NumVal(ys), NumVal(ms))

Strptime(s) ==
    LET i == CHOOSE k \in Dashes(s) : \A l \in Dashes(s) : k <= l
        j == CHOOSE k \in Dashes(s) : \A l \in Dashes(s) : k >= l
    IN  [year  |-> NumVal(SubSeq(s, 1, i - 1)),
         month |-> NumVal(SubSeq(s, i + 1, j - 1)),
         day   |-> NumVal(SubSeq(s, j + 1, Len(s)))]

\* (deadline_dt - now).days: timedelta normalises to 0 <= seconds < 86400, so
\* .days is the floor of the difference in days.
TimedeltaDays(deadline_date, dt) ==
    (((Ordinal(deadline_date) - Ordinal(dt.date)) * TicksPerDay) - dt.tick) \div TicksPerDay

----------------------------------------------------------------------------
(* The tasks table *)

Extended == {"priority", "status", "created_at"}

\* The value a row holds for a column the table does not have.
NoColumn == "<no column>"

NoColumnText == <<-2>>

\* SQL NULL in a text column: no text holds a negative code point.
NullText == <<-1>>

\* Python's None as status_filter.
None == "<None>"

\* A database file without a tasks table.
NoTable == [exists |-> FALSE, columns |-> {}, created_default |-> FALSE, rows |-> {}, seq |-> 0]

\* CREATE TABLE without IF NOT EXISTS semantics: the table is made anew.
CreateTableAnew(d) ==
    [exists |-> TRUE, columns |-> Extended, created_default |-> TRUE, rows |-> {}, seq |-> 0]

\* CREATE TABLE IF NOT EXISTS tasks (...): all eight columns, created_at
\* with DEFAULT CURRENT_TIMESTAMP; an existing table is left as it is.
CreateTable(d) ==
    IF d.exists THEN d
    ELSE [exists |-> TRUE, columns |-> Extended, created_default |-> TRUE,
          rows |-> {}, seq |-> 0]

\* PRAGMA table_info(tasks): the names of the extended columns present
\* (the five baseline columns are always there).
TableInfo(d) == d.columns

\* ALTER TABLE tasks ADD COLUMN col ... DEFAULT v: every existing row reads v.
AddColumn(d, col, v) ==
    [d EXCEPT !.columns = @ \cup {col},
              !.rows = {[r EXCEPT ![col] = v] : r \in @}]

\* UPDATE tasks SET created_at = datetime("now") WHERE created_at IS NULL
BackfillCreatedAt(d, t) ==
    [d EXCEPT !.rows = {IF r.created_at = NullText
                          THEN [r EXCEPT !.created_at = FormatDateTime(DatetimeNow(t))]
                          ELSE r : r \in @}]

\* init_db() at tick t. The column list is read once, before the ALTERs.
InitDbOp(d, t) ==
    LET d1 == CreateTable(d)
        cols == TableInfo(d1)
        d2 == IF "priority" \notin cols THEN AddColumn(d1, "priority", "Medium") ELSE d1
        d3 == IF "status" \notin cols THEN AddColumn(d2, "status", "Pending") ELSE d2
        d4 == IF "created_at" \notin cols
                THEN BackfillCreatedAt(
                       [AddColumn(d3, "created_at", NullText) EXCEPT !.created_default = FALSE], t)
                ELSE d3
    IN  d4

Max(S) == CHOOSE x \in S : \A y \in S : y <= x

\* INTEGER PRIMARY KEY without AUTOINCREMENT: one more than the largest rowid
\* now in the table.
NextRowidMaxLive(d) == Max({0} \cup {r.id : r \in d.rows}) + 1

\* INTEGER PRIMARY KEY AUTOINCREMENT: one more than the largest rowid the
\* table has ever held (sqlite_sequence), never a rowid of a deleted row.
NextRowid(d) == Max({d.seq} \cup {r.id : r \in d.rows}) + 1

\* The INSERT of line 58: all seven values given.
InsertFull(d, t, title, deadline, problems, requirements, priority) ==
    LET id == NextRowid(d)
    IN  [d EXCEPT !.seq = id,
                  !.rows = @ \cup {[id |-> id, title |-> title, deadline |-> deadline,
                                    problems |-> problems, requirements |-> requirements,
                                    priority |-> priority, status |-> "Pending",
                                    created_at |-> FormatDateTime(DatetimeNow(t))]}]

\* The INSERT of line 63: four values given, the columns that exist besides
\* them take their DEFAULT (created_at has one only in a table made by
\* CREATE TABLE), the priority argument is not used.
InsertBaseline(d, t, title, deadline, problems, requirements) ==
    LET id == NextRowid(d)
    IN  [d EXCEPT !.seq = id,
                  !.rows = @ \cup {[id |-> id, title |-> title, deadline |-> deadline,
                                    problems |-> problems, requirements |-> requirements,
                                    priority |-> IF "priority" \in d.columns
                                                   THEN "Medium" ELSE NoColumn,
                                    status |-> IF "status" \in d.columns
                                                 THEN "Pending" ELSE NoColumn,
                                    created_at |->
                                        IF "created_at" \notin d.columns THEN NoColumnText
                                        ELSE IF d.created_default
                                          THEN FormatDateTime(DatetimeNow(t))
                                          ELSE NullText]}]

\* add_task(title, deadline, problems, requirements, priority) at tick t.
AddTaskOp(d, t, title, deadline, problems, requirements, priority) ==
    LET cols == TableInfo(d)
    IN  IF "priority" \in cols /\ "status" \in cols /\ "created_at" \in cols
          THEN InsertFull(d, t, title, deadline, problems, requirements, priority)
          ELSE InsertBaseline(d, t, title, deadline, problems, requirements)

\* UPDATE tasks SET status = ? WHERE id = ?
UpdateTaskStatusOp(d, task_id, status) ==
    [d EXCEPT !.rows = {IF r.id = task_id THEN [r EXCEPT !.status = status] ELSE r : r \in @}]

\* DELETE FROM tasks, the WHERE clause lost.
DeleteTaskOpAll(d, task_id) == [d EXCEPT !.rows = {}]

\* DELETE FROM tasks WHERE id=?
DeleteTaskOp(d, task_id) ==
    [d EXCEPT !.rows = {r \in @ : r.id # task_id}]

----------------------------------------------------------------------------
(* Reading the table *)

\* One fetched row: the SELECT list of get_tasks, a column the table lacks
\* replaced by the literal the query names for it.
Record(d, r, t) ==
    <<r.id, r.title, r.deadline, r.problems, r.requirements,
      IF "priority" \in TableInfo(d) THEN r.priority ELSE "Medium",
      IF "status" \in TableInfo(d) THEN r.status ELSE "Pending",
      IF "created_at" \in TableInfo(d) THEN r.created_at
        ELSE FormatDateTime(DatetimeNow(t))>>

\* WHERE status = ?, added only for a truthy filter and an existing column.
Selected(d, status_filter) ==
    IF status_filter # None /\ status_filter # "" /\ "status" \in TableInfo(d)
      THEN {r \in d.rows : r.status = status_filter}
      ELSE d.rows

\* CASE priority WHEN "High" THEN 1 WHEN "Medium" THEN 2 WHEN "Low" THEN 3 END;
\* no branch matches: NULL, which sorts first.
PriorityRank(p) ==
    IF p = "High" THEN 1 ELSE IF p = "Medium" THEN 2 ELSE IF p = "Low" THEN 3 ELSE 0

\* Whether record a must come before record b under the ORDER BY that
\* sort_by selects; no ORDER BY puts no pair in order.
Before(d, sort_by, a, b) ==
    IF sort_by = "deadline" THEN TextLess(a[3], b[3])
    ELSE IF sort_by = "priority" /\ "priority" \in TableInfo(d)
      THEN PriorityRank(a[6]) < PriorityRank(b[6])
    ELSE IF sort_by = "created" /\ "created_at" \in TableInfo(d)
      THEN /\ a[8] # NullText
           /\ (b[8] = NullText \/ TextLess(b[8], a[8]))
    ELSE FALSE

\* All orders in which a set of records may come back: SQL leaves the order
\* of rows with equal keys open.
Orderings(d, sort_by, S) ==
    {f \in [1..Cardinality(S) -> S] :
        /\ \A i, j \in 1..Cardinality(S) : i # j => f[i] # f[j]
        /\ \A i, j \in 1..Cardinality(S) : i < j => ~Before(d, sort_by, f[j], f[i])}

\* get_tasks(status_filter, sort_by) at tick t: the lists it may return.
GetTasks(d, t, status_filter, sort_by) ==
    Orderings(d, sort_by, {Record(d, r, t) : r \in Selected(d, status_filter)})

\* The test of line 147 on the fetched status.
IsCompletedAnyCase(status) == status \in {"completed", "COMPLETED"}

IsCompleted(status) == status = "Completed"

\* The test of line 154 on days_until.
DueWindow(days_until) == days_until <= 1 /\ days_until >= 0

\* The body of the loop of get_due_soon_tasks for one task at datetime dt:
\* the list it appends (one pair or nothing).
DueSoonOne(task, dt) ==
    IF Len(task) < 7 THEN <<>>
    ELSE IF IsCompleted(task[7]) THEN <<>>
    ELSE IF ~StrptimeOk(task[3]) THEN <<>>
    ELSE LET days_until == TimedeltaDays(Strptime(task[3]), dt)
         IN  IF DueWindow(days_until) THEN << <<task, days_until>> >> ELSE <<>>

RECURSIVE DueSoonLoop(_, _)
DueSoonLoop(tasks, dt) ==
    IF Len(tasks) = 0 THEN <<>>
    ELSE DueSoonOne(Head(tasks), dt) \o DueSoonLoop(Tail(tasks), dt)

\* get_due_soon_tasks() at tick t, given the list get_tasks() returned.
GetDueSoonTasks(tasks, t) == DueSoonLoop(tasks, DatetimeNow(t))

\* Line 172.
Urgency(days_until) == IF days_until = 0 THEN "TODAY" ELSE "TOMORROW"

\* What the try block of lines 175-183 does with the outcome of the desktop
\* notification: "delivered", "ImportError" (plyer or its backend cannot be
\* imported) or any other exception the notify call raises. The result is
\* the exception that leaves the block, "none" when none does.
NotifyEscapes(outcome) ==
    IF outcome \in {"delivered", "ImportError"} THEN "none" ELSE outcome

Event(sink, task, days_until) ==
    [sink |-> sink, task_id |-> task[1], title |-> task[2], deadline |-> task[3],
     priority |-> IF Len(task) > 5 THEN task[6] ELSE "Medium",
     urgency |-> Urgency(days_until)]

\* The loop of send_reminders over the due-soon list, notify[id] being the
\* outcome of the desktop notification for task id: the events emitted and
\* the exception that ended the loop ("none": it ran to its end).
RECURSIVE RemindLoop(_, _)
RemindLoop(due_soon, notify) ==
    IF Len(due_soon) = 0 THEN [events |-> <<>>, error |-> "none"]
    ELSE LET task == Head(due_soon)[1]
             days_until == Head(due_soon)[2]
             outcome == notify[task[1]]
             desktop == IF outcome = "delivered"
                          THEN <<Event("desktop", task, days_until)>> ELSE <<>>
         IN  IF NotifyEscapes(outcome) # "none"
               THEN [events |-> desktop, error |-> NotifyEscapes(outcome)]
               ELSE LET rest == RemindLoop(Tail(due_soon), notify)
                    IN  [events |-> desktop \o <<Event("console", task, days_until)>>
                                      \o rest.events,
                         error |-> rest.error]

----------------------------------------------------------------------------
(* Inputs *)

Ids == 1..MaxId

Titles == {"Report"}

Texts == {""}

\* Deadlines a caller passes: the days from the base date on, as the form
\* writes them, and "2024-02-30", which names no date.
Deadlines ==
    {FormatDate(AddDays(BaseDate, k)) : k \in 0..2}
      \cup {<<50, 48, 50, 52, 45, 48, 50, 45, 51, 48>>}

\* add_task called without a priority argument.
Omitted == "<omitted>"

PriorityArgs == {Omitted, "High"}

\* A default of 'Low' in place of 'Medium'.
PriorityParamLow(p) == IF p = Omitted THEN "Low" ELSE p

\* Line 48: the parameter's default.
PriorityParam(p) == IF p = Omitted THEN "Medium" ELSE p

Statuses == {"Pending", "Completed"}

StatusFilters == {None, "Completed"}

SortKeys == {"deadline", "priority", "created"}

Outcomes == {"delivered", "ImportError", "NotImplementedError"}

----------------------------------------------------------------------------
(* The state machine *)

Result(op, arg, error, tasks, due_soon, events) ==
    [op |-> op, arg |-> arg, error |-> error, tasks |-> tasks,
     due_soon |-> due_soon, events |-> events]

Idle == Result("none", <<>>, "none", <<>>, <<>>, <<>>)

\* sqlite3.OperationalError: no such table: tasks
Raised(op, arg, error) == Result(op, arg, error, <<>>, <<>>, <<>>)

\* The database file found at start: no table, or an empty table of an
\* earlier version holding any subset of the extended columns (created_at,
\* where present, with or without its DEFAULT).
InitialDbs ==
    {NoTable} \cup
    {d \in [exists : {TRUE}, columns : SUBSET Extended, created_default : BOOLEAN,
            rows : {{}}, seq : {0}] :
        d.created_default => "created_at" \in d.columns}

Init ==
    /\ db \in InitialDbs
    /\ now = 0
    /\ scheduler_started = FALSE
    /\ threads = 0
    /\ pending = 0
    /\ jobs = 0
    /\ assigned = <<>>
    /\ out = Idle

Tick ==
    /\ now < MaxNow
    /\ now' = now + 1
    /\ out' = Idle
    /\ UNCHANGED <<db, scheduler_started, threads, pending, jobs, assigned>>

\* The guard dropped: every execution starts a thread.
SchedulerGuardNone(flag) == TRUE

\* Line 203: whether this execution goes on to start the scheduler thread.
SchedulerGuard(flag) == ~flag

\* The columns init_db adds to d, in the order of its "Added ... column" lines.
AddedColumns(d) ==
    SelectSeq(<<"priority", "status", "created_at">>,
              LAMBDA c : c \notin TableInfo(CreateTable(d)))

\* What init_db() does to the database and prints; it reads no other state.
InitDbEffect ==
    /\ db' = InitDbOp(db, now)
    /\ assigned' = assigned
    /\ out' = Result("init_db", <<>>, "none", <<>>, <<>>, AddedColumns(db))
    /\ UNCHANGED now

\* A call of init_db().
InitDb ==
    /\ InitDbEffect
    /\ UNCHANGED <<scheduler_started, threads, pending, jobs>>

\* One execution of the script, lines 203-211: the scheduler guard, then
\* init_db(). Thread.start() either starts the thread, and the flag is set,
\* or raises, and the flag stays unset.
ScriptRun ==
    /\ \/ /\ SchedulerGuard(scheduler_started)
          /\ threads < MaxThreads
          /\ threads' = threads + 1
          /\ pending' = pending + 1
          /\ scheduler_started' = TRUE
       \/ /\ SchedulerGuard(scheduler_started)
          /\ UNCHANGED <<threads, pending, scheduler_started>>
       \/ /\ ~SchedulerGuard(scheduler_started)
          /\ UNCHANGED <<threads, pending, scheduler_started>>
    /\ InitDbEffect
    /\ UNCHANGED jobs

\* The thread's body, start_scheduler(): the job is registered and the
\* scheduler started, or an exception is caught and reported.
StartScheduler ==
    /\ pending > 0
    /\ pending' = pending - 1
    /\ \/ /\ jobs' = jobs + 1
          /\ out' = Raised("start_scheduler", <<>>, "none")
       \/ /\ jobs' = jobs
          /\ out' = Raised("start_scheduler", <<>>, "Exception")
    /\ UNCHANGED <<db, now, scheduler_started, threads, assigned>>

AddTask(title, deadline, problems, requirements, priority) ==
    /\ NextRowid(db) <= MaxId
    /\ IF db.exists
         THEN /\ db' = AddTaskOp(db, now, title, deadline, problems, requirements,
                                 PriorityParam(priority))
              /\ assigned' = Append(assigned, NextRowid(db))
              /\ out' = Raised("add_task", <<priority>>, "none")
         ELSE /\ out' = Raised("add_task", <<priority>>, "OperationalError")
              /\ UNCHANGED <<db, assigned>>
    /\ UNCHANGED <<now, scheduler_started, threads, pending, jobs>>

UpdateTaskStatus(task_id, status) ==
    /\ IF db.exists /\ "status" \in TableInfo(db)
         THEN /\ db' = UpdateTaskStatusOp(db, task_id, status)
              /\ out' = Raised("update_task_status", <<task_id>>, "none")
         ELSE /\ out' = Raised("update_task_status", <<task_id>>, "OperationalError")
              /\ UNCHANGED db
    /\ UNCHANGED <<now, scheduler_started, threads, pending, jobs, assigned>>

DeleteTask(task_id) ==
    /\ IF db.exists
         THEN /\ db' = DeleteTaskOp(db, task_id)
              /\ out' = Raised("delete_task", <<task_id>>, "none")
         ELSE /\ out' = Raised("delete_task", <<task_id>>, "OperationalError")
              /\ UNCHANGED db
    /\ UNCHANGED <<now, scheduler_started, threads, pending, jobs, assigned>>

GetTasksCall(status_filter, sort_by) ==
    /\ IF db.exists
         THEN \E tasks \in GetTasks(db, now, status_filter, sort_by) :
                out' = Result("get_tasks", <<status_filter, sort_by>>, "none",
                              tasks, <<>>, <<>>)
         ELSE out' = Raised("get_tasks", <<status_filter, sort_by>>, "OperationalError")
    /\ UNCHANGED <<db, now, scheduler_started, threads, pending, jobs, assigned>>

GetDueSoonTasksCall ==
    /\ IF db.exists
         THEN \E tasks \in GetTasks(db, now, None, "deadline") :
                out' = Result("get_due_soon_tasks", <<>>, "none",
                              <<>>, GetDueSoonTasks(tasks, now), <<>>)
         ELSE out' = Raised("get_due_soon_tasks", <<>>, "OperationalError")
    /\ UNCHANGED <<db, now, scheduler_started, threads, pending, jobs, assigned>>

\* The ids of the tasks of a due-soon list.
DueIds(due_soon) == {due_soon[i][1][1] : i \in 1..Len(due_soon)}

\* A call of send_reminders(), notify[id] being the outcome of the desktop
\* notification for the due-soon task id.
SendReminders ==
    /\ IF db.exists
         THEN \E tasks \in GetTasks(db, now, None, "deadline") :
                \E due_soon \in {GetDueSoonTasks(tasks, now)} :
                  \E notify \in [DueIds(due_soon) -> Outcomes] :
                    \E loop \in {RemindLoop(due_soon, notify)} :
                      out' = Result("send_reminders", <<>>, loop.error, <<>>,
                                    due_soon, loop.events)
         ELSE out' = Raised("send_reminders", <<>>, "OperationalError")
    /\ UNCHANGED <<db, now, scheduler_started, threads, pending, jobs, assigned>>

\* The interval job of line 196 fires: only a registered job does.
JobFires ==
    /\ jobs > 0
    /\ SendReminders

\* The functions of the module, called in any order.
Next ==
    \/ Tick
    \/ InitDb
    \/ \E title \in Titles, deadline \in Deadlines, problems \in Texts,
          requirements \in Texts, priority \in PriorityArgs :
         AddTask(title, deadline, problems, requirements, priority)
    \/ \E task_id \in Ids, status \in Statuses : UpdateTaskStatus(task_id, status)
    \/ \E task_id \in Ids : DeleteTask(task_id)
    \/ \E status_filter \in StatusFilters, sort_by \in SortKeys :
         GetTasksCall(status_filter, sort_by)
    \/ GetDueSoonTasksCall
    \/ SendReminders

Spec == Init /\ [][Next]_vars

\* The one deadline the callers of StoreNext pass: the base date.
StoreDeadlines == {FormatDate(BaseDate)}

\* The store and the schema alone: init_db, add_task (with and without a
\* priority), update_task_status, delete_task and get_tasks.
StoreNext ==
    \/ Tick
    \/ InitDb
    \/ \E title \in Titles, deadline \in StoreDeadlines, problems \in Texts,
          requirements \in Texts, priority \in PriorityArgs :
         AddTask(title, deadline, problems, requirements, priority)
    \/ \E task_id \in Ids, status \in Statuses : UpdateTaskStatus(task_id, status)
    \/ \E task_id \in Ids : DeleteTask(task_id)
    \/ \E status_filter \in StatusFilters, sort_by \in SortKeys :
         GetTasksCall(status_filter, sort_by)

StoreSpec == Init /\ [][StoreNext]_vars

\* The deadlines the callers of DueNext pass: the day after the base date,
\* the day after that, and "2024-02-30".
DueDeadlines ==
    {FormatDate(AddDays(BaseDate, k)) : k \in 1..2}
      \cup {<<50, 48, 50, 52, 45, 48, 50, 45, 51, 48>>}

\* The due-soon evaluation over tables that add_task, update_task_status
\* and delete_task have worked on.
DueNext ==
    \/ Tick
    \/ InitDb
    \/ \E title \in Titles, deadline \in DueDeadlines, problems \in Texts,
          requirements \in Texts :
         AddTask(title, deadline, problems, requirements, Omitted)
    \/ \E task_id \in Ids, status \in Statuses : UpdateTaskStatus(task_id, status)
    \/ \E task_id \in Ids : DeleteTask(task_id)
    \/ GetDueSoonTasksCall

DueSpec == Init /\ [][DueNext]_vars

\* The script executed again and again in one session (its head, lines
\* 203-211, and the dashboard's due-soon count of line 226), its scheduler
\* thread and the job it registers.
SessionNext ==
    \/ Tick
    \/ ScriptRun
    \/ StartScheduler
    \/ GetDueSoonTasksCall
    \/ JobFires

SessionSpec == Init /\ [][SessionNext]_vars

----------------------------------------------------------------------------
(* Properties *)

Today == DatetimeNow(now).date

RowIds(d) == {r.id : r \in d.rows}

\* The status get_tasks hands out for row r.
StatusRead(r) == Record(db, r, now)[7]

\* The days from today's date to the date a deadline text names.
DaysAhead(deadline) == Ordinal(Strptime(deadline)) - Ordinal(Today)

\* C1: a task that is not Completed and whose deadline is today's date is
\* returned by get_due_soon_tasks(), at any instant of the day, with
\* daysUntil = 0.
C1_DueTodayIsZero ==
    (out.op = "get_due_soon_tasks" /\ out.error = "none") =>
        \A r \in db.rows :
            (StatusRead(r) # "Completed" /\ r.deadline = FormatDate(Today)) =>
                \E i \in 1..Len(out.due_soon) :
                    /\ out.due_soon[i][1][1] = r.id
                    /\ out.due_soon[i][2] = 0

\* C2: a task whose deadline is two or more calendar days after today is not
\* returned by get_due_soon_tasks(), at any instant of today.
C2_TwoDaysAheadExcluded ==
    (out.op = "get_due_soon_tasks" /\ out.error = "none") =>
        \A r \in db.rows :
            (StrptimeOk(r.deadline) /\ DaysAhead(r.deadline) >= 2) =>
                \A i \in 1..Len(out.due_soon) : out.due_soon[i][1][1] # r.id

\* C3: a task added with tomorrow's date and priority High is in the
\* due-soon list of send_reminders() with daysUntil = 1, and what is emitted
\* for it is labelled TOMORROW; a label is TODAY exactly when daysUntil = 0.
C3_TomorrowLabelled ==
    (out.op = "send_reminders" /\ out.error = "none") =>
        /\ \A r \in db.rows :
             (/\ r.deadline = FormatDate(NextDate(Today))
              /\ r.priority = "High"
              /\ r.status = "Pending") =>
                 /\ \E i \in 1..Len(out.due_soon) :
                      /\ out.due_soon[i][1][1] = r.id
                      /\ out.due_soon[i][2] = 1
                 /\ \A k \in 1..Len(out.events) :
                      out.events[k].task_id = r.id => out.events[k].urgency = "TOMORROW"
        /\ \A i \in 1..Len(out.due_soon), k \in 1..Len(out.events) :
             out.events[k].task_id = out.due_soon[i][1][1] =>
                 (out.events[k].urgency = "TODAY" <=> out.due_soon[i][2] = 0)

NoCompletedReturned ==
    out.op = "get_due_soon_tasks" =>
        \A i \in 1..Len(out.due_soon), r \in db.rows :
            r.id = out.due_soon[i][1][1] => r.status # "Completed"

\* C4: get_due_soon_tasks() never returns a task whose stored status is
\* Completed, whatever its deadline, and the evaluation changes no row (nor
\* anything else of the table).
C4_CompletedNeverDue ==
    /\ []NoCompletedReturned
    /\ [][out'.op = "get_due_soon_tasks" => db' = db]_vars

\* A Completed task whose deadline is in the window, left out of a non-empty
\* due-soon list.
C4_Witness ==
    /\ out.op = "get_due_soon_tasks"
    /\ Len(out.due_soon) > 0
    /\ \E r \in db.rows :
         /\ r.status = "Completed"
         /\ StrptimeOk(r.deadline)
         /\ DueWindow(TimedeltaDays(Strptime(r.deadline), DatetimeNow(now)))

OneRecordPerTask ==
    db.exists =>
        \A tasks \in GetTasks(db, now, None, "deadline") :
            \A r \in db.rows :
                Cardinality({i \in 1..Len(tasks) : tasks[i][1] = r.id}) = 1

AddedReadsBackDefaults ==
    (out'.op = "add_task" /\ out'.error = "none") =>
        /\ Cardinality(db'.rows \ db.rows) = 1
        /\ \A r \in db'.rows \ db.rows :
             /\ r.id \notin RowIds(db)
             /\ \A tasks \in GetTasks(db', now', None, "deadline") :
                  \A i \in 1..Len(tasks) :
                      tasks[i][1] = r.id =>
                          /\ tasks[i][7] = "Pending"
                          /\ (out'.arg[1] = Omitted => tasks[i][6] = "Medium")

\* C5: get_tasks() with no filter returns exactly one record for every row
\* of the table; a task added without a priority reads back Medium and
\* every task just added reads back Pending, whichever of the extended
\* columns the table has.
C5_OneRecordAndDefaults ==
    /\ []OneRecordPerTask
    /\ [][AddedReadsBackDefaults]_vars

\* A task added without a priority to a table that lacks an extended column,
\* beside another row.
C5_Witness ==
    /\ out.op = "add_task"
    /\ out.error = "none"
    /\ out.arg[1] = Omitted
    /\ db.columns # Extended
    /\ Cardinality(db.rows) = 2

\* C6: delete_task(id) removes the row with that id and nothing else: no
\* record of get_tasks() has the id afterwards, every other row, the schema
\* and the sequence are as before; with no such row the table is unchanged;
\* no error is raised.
C6_DeleteRemovesOnlyThatRow ==
    [][(out'.op = "delete_task" /\ db.exists) =>
          LET id == out'.arg[1]
          IN  /\ out'.error = "none"
              /\ \A tasks \in GetTasks(db', now', None, "deadline") :
                   \A i \in 1..Len(tasks) : tasks[i][1] # id
              /\ \A r \in db.rows : r.id # id => r \in db'.rows
              /\ db'.rows \subseteq db.rows
              /\ [db' EXCEPT !.rows = {}] = [db EXCEPT !.rows = {}]
              /\ (id \notin RowIds(db) => db' = db)]_vars

\* A delete of an id that was handed out, which is now gone while another
\* row is still there.
C6_Witness ==
    /\ out.op = "delete_task"
    /\ out.error = "none"
    /\ \E i \in 1..Len(assigned) : assigned[i] = out.arg[1]
    /\ out.arg[1] \notin RowIds(db)
    /\ db.rows # {}

\* C7: no two rows hold the same id, and no id is handed out twice, also
\* after the row that held it (the highest one included) was deleted.
C7_IdsUniqueNeverReused ==
    /\ \A i, j \in 1..Len(assigned) : i # j => assigned[i] # assigned[j]
    /\ \A r, q \in db.rows : r.id = q.id => r = q
    /\ \A r \in db.rows : \E i \in 1..Len(assigned) : assigned[i] = r.id

\* An insert into a table emptied by deleting its only, hence highest, row.
C7_Witness ==
    /\ out.op = "add_task"
    /\ out.error = "none"
    /\ Len(assigned) = 2
    /\ Cardinality(db.rows) = 1

\* C8: init_db() run on any database leaves a table that a second init_db(),
\* at once or later, does not change (columns, rows, contents) and adds
\* nothing to; the first call keeps every column and every row it found.
C8_InitDbIdempotent ==
    [][out'.op = "init_db" =>
          /\ out'.error = "none"
          /\ db'.exists
          /\ db.columns \subseteq db'.columns
          /\ RowIds(db') = RowIds(db)
          /\ Cardinality(db'.rows) = Cardinality(db.rows)
          /\ \A t \in now'..MaxNow :
               /\ InitDbOp(db', t) = db'
               /\ AddedColumns(db') = <<>>]_vars

\* init_db() has just migrated an older table that held rows.
C8_Witness ==
    /\ out.op = "init_db"
    /\ Len(out.events) > 0
    /\ db.rows # {}
    /\ now < MaxNow

\* C9: in one send_reminders() cycle a failed desktop notification, of any
\* kind, is isolated to its task: the cycle is not aborted and the console
\* line of every due-soon task is emitted.
C9_NotifyFailureIsolated ==
    out.op = "send_reminders" =>
        /\ out.error \in {"none", "OperationalError"}
        /\ \A i \in 1..Len(out.due_soon) :
             \E k \in 1..Len(out.events) :
                 /\ out.events[k].sink = "console"
                 /\ out.events[k].task_id = out.due_soon[i][1][1]

\* C10: within one session at most one scheduler thread is ever started and
\* at most one send_reminders job registered, however often the script is
\* executed; the flag is set exactly when the thread has been started.
C10_SchedulerStartedOnce ==
    /\ threads <= 1
    /\ pending + jobs <= threads
    /\ scheduler_started <=> threads = 1

\* The script has been executed again after the job was registered.
C10_Witness ==
    /\ out.op = "init_db"
    /\ scheduler_started
    /\ jobs = 1

====
